---- MODULE Spec2Model ----
\* AWS multi-account automation: the credential provisioner (two copies), the
\* /get-aws-creds endpoint, the OU creator and the member-account creator,
\* run against a model of the Organizations / IAM / STS provider.
EXTENDS Integers, Sequences, FiniteSets, TLC

\* ---------------------------------------------------------------------
\* Bounds
\* ---------------------------------------------------------------------
MaxFaults == 2
MaxPolls == 2
MaxPageSize == 2

Procs == {1, 2}

\* ---------------------------------------------------------------------
\* Strings are sequences of one-character strings, so that prefix tests,
\* lengths, concatenation and splitting are computed as Python computes them.
\* ---------------------------------------------------------------------
None == <<"<None>">>
Int123 == <<"<int 123>">>
EmptyStr == <<>>
Unbound == "<unbound>"

S_None == <<"N", "o", "n", "e">>
S_AdminRole == <<"A", "d", "m", "i", "n", "R", "o", "l", "e">>
S_OrgAdminRole == <<"O", "r", "g">> \o S_AdminRole
S_MobileOrgAdmin == <<"M", "o", "b", "i", "l", "e", "O", "r", "g", "A", "d", "m", "i", "n">>
S_ouPrefix == <<"o", "u", "-">>
S_Development == <<"D", "e", "v", "e", "l", "o", "p", "m", "e", "n", "t">>
S_Prod == <<"P", "r", "o", "d">>
S_Team == <<"T", "e", "a", "m">>
S_ouShort == S_ouPrefix \o <<"a", "b", "1", "2", "-", "c", "d">>
S_DevId == S_ouPrefix \o <<"a", "b", "1", "2", "-", "d", "e", "v", "1">>
S_ProdId == S_ouPrefix \o <<"a", "b", "1", "2", "-", "p", "r", "d", "1">>
S_TeamId == S_ouPrefix \o <<"a", "b", "1", "2", "-", "t", "e", "a", "m">>
S_NewId == S_ouPrefix \o <<"a", "b", "1", "2", "-", "n", "e", "w", "1">>
S_GoneId == S_ouPrefix \o <<"a", "b", "1", "2", "-", "g", "o", "n", "e">>
S_ShortId == S_ouPrefix \o <<"a", "b", "1", "2", "-", "s", "h", "r", "t">>
S_DevProdId == S_ouPrefix \o <<"a", "b", "1", "2", "-", "d", "p", "r", "d">>
S_RootId == <<"r", "-", "a", "b", "1", "2">>
S_Finalizing == <<"F", "i", "n", "a", "l", "i", "z", "i", "n", "g">>
S_ReqId == <<"c", "a", "r", "-", "1">>
S_Unknown == <<"U", "n", "k", "n", "o", "w", "n">>
S_EmailExists == <<"E", "M", "A", "I", "L", "_", "E", "X", "I", "S", "T", "S">>
S_Limit == <<"L", "I", "M", "I", "T">>
S_FailedPrefix ==
  <<"A", "c", "c", "o", "u", "n", "t", " ", "c", "r", "e", "a", "t", "i", "o", "n", " ",
    "f", "a", "i", "l", "e", "d", ":", " ">>

\* A truthy string used for the account name and e-mail arguments.
S_x == <<"x">>

\* Python truthiness and isinstance(v, str) on the modelled values.
Truthy(v) == v # None /\ v # EmptyStr
IsStr(v) == v # None /\ v # Int123

\* str.startswith
StartsWith(s, pre) == Len(s) >= Len(pre) /\ SubSeq(s, 1, Len(pre)) = pre

\* `sub in s` for strings
Contains(s, sub) ==
  \E i \in 0..(Len(s) - Len(sub)) : SubSeq(s, i + 1, i + Len(sub)) = sub

\* str(v) as used by an f-string: None formats as the text "None".
Format(v) == IF v = None THEN S_None ELSE v

\* str.split()[-1]: the last whitespace-separated token.
RECURSIVE DropTrailingSpaces(_)
DropTrailingSpaces(s) ==
  IF s # <<>> /\ s[Len(s)] = " " THEN DropTrailingSpaces(SubSeq(s, 1, Len(s) - 1)) ELSE s

RECURSIVE LastWord(_)
LastWord(s) ==
  IF s = <<>> \/ s[Len(s)] = " " THEN <<>>
  ELSE LastWord(SubSeq(s, 1, Len(s) - 1)) \o <<s[Len(s)]>>

LastToken(s) == LastWord(DropTrailingSpaces(s))

\* datetime.strftime("%Y-%m-%dT%H:%M:%SZ") on <<year, month, day, hour, minute, second>>
Digits == <<"0", "1", "2", "3", "4", "5", "6", "7", "8", "9">>
Digit(n) == Digits[n + 1]
Pad2(n) == <<Digit((n \div 10) % 10), Digit(n % 10)>>
Pad4(n) == Pad2(n \div 100) \o Pad2(n % 100)
Strftime(t) ==
  Pad4(t[1]) \o <<"-">> \o Pad2(t[2]) \o <<"-">> \o Pad2(t[3]) \o <<"T">> \o
  Pad2(t[4]) \o <<":">> \o Pad2(t[5]) \o <<":">> \o Pad2(t[6]) \o <<"Z">>

\* ---------------------------------------------------------------------
\* State
\* ---------------------------------------------------------------------
VARIABLES
  pc,      \* pc[p]: position of call p in its handler
  args,    \* args[p]: the entry point and its arguments
  loc,     \* loc[p]: local variables of call p
  out,     \* out[p]: what the call returned or raised
  calls,   \* calls[p]: provider API calls issued by call p, with their responses
  org,     \* provider: an Organization exists
  roles,   \* provider: IAM role names that exist
  ous,     \* provider: OUs in listing order, [Id, Name, ParentId]
  pageSize,\* provider: OUs per listing page
  acct,    \* provider: the account-creation request
  faults   \* provider errors still to be injected

vars == <<pc, args, loc, out, calls, org, roles, ous, pageSize, acct, faults>>

\* ---------------------------------------------------------------------
\* Provider
\* ---------------------------------------------------------------------
CallerAccount == "111122223333"
OrgId == "o-exampleorg"
Expiration == <<2026, 11, 1, 9, 5, 0>>
Credentials ==
  [AccessKeyId |-> "ASIA", SecretAccessKey |-> "secret", SessionToken |-> "token",
   Expiration |-> Expiration]
AccountIds == {"444455556666", "777788889999"}
FailureReasons == {None, S_EmailExists, S_Limit}

\* No account-creation request has been submitted.
NoAccount == [State |-> "NONE", AccountId |-> Unbound, FailureReason |-> None,
              ParentId |-> None, polls |-> 0]

RECURSIVE Filter(_, _)
Filter(s, parent) ==
  IF s = <<>> THEN <<>>
  ELSE (IF Head(s).ParentId = parent THEN <<Head(s)>> ELSE <<>>) \o Filter(Tail(s), parent)

Min(a, b) == IF a < b THEN a ELSE b

\* The OUs directly under `parent`, as the provider lists them.
Children(parent) == Filter(ous, parent)

\* Number of listing pages for `parent` (an empty listing is one empty page).
NumPages(parent) ==
  IF Children(parent) = <<>> THEN 1
  ELSE (Len(Children(parent)) + pageSize - 1) \div pageSize

\* Page k (1-based) of list_organizational_units_for_parent(ParentId=parent).
Page(parent, k) ==
  SubSeq(Children(parent), (k - 1) * pageSize + 1, Min(k * pageSize, Len(Children(parent))))

ParentExists(id) == id = S_RootId \/ \E i \in 1..Len(ous) : ous[i].Id = id

NameTaken(parent, name) ==
  \E i \in 1..Len(ous) : ous[i].ParentId = parent /\ ous[i].Name = name

\* next((ou for ou in ous if ou['Name'] == name), None) over one page
RECURSIVE FirstByName(_, _)
FirstByName(page, name) ==
  IF page = <<>> THEN None
  ELSE IF Head(page).Name = name THEN Head(page).Id
  ELSE FirstByName(Tail(page), name)

\* ---------------------------------------------------------------------
\* Call bookkeeping
\* ---------------------------------------------------------------------
\* What a call that answers either a value or an error code came back with.
Answer(v) == [Value |-> v]
ErrorAnswer(code) == [Error |-> code]

Call(p, api, arg, resp) ==
  calls' = [calls EXCEPT ![p] = Append(@, [api |-> api, arg |-> arg, resp |-> resp])]

Goto(p, label) == pc' = [pc EXCEPT ![p] = label]

SetLoc(p, upd) == loc' = [loc EXCEPT ![p] = upd @@ @]

\* The /get-aws-creds handler wraps everything in try/except: PermissionError
\* becomes 403, any other exception a generic 500.
ErrorResponse(type, msg) ==
  IF type = "PermissionError"
  THEN [kind |-> "response", status |-> 403, body |-> [error |-> msg], exc |-> type]
  ELSE [kind |-> "response", status |-> 500, body |-> [error |-> "Internal server error"],
        exc |-> type]

\* An exception leaving the current function.
Raise(p, type, msg) ==
  /\ out' = [out EXCEPT ![p] =
       IF args[p].op = "get_aws_creds" THEN ErrorResponse(type, msg)
       ELSE [kind |-> "raise", type |-> type, msg |-> msg]]
  /\ Goto(p, "done")

Fault == faults > 0 /\ faults' = faults - 1
NoFault == faults' = faults

\* ---------------------------------------------------------------------
\* Credential provisioner: setup_org_and_get_creds. credential_and_role.py and
\* flask_endpoint.py each hold a copy; the copies differ in the handler around
\* describe_organization, and the steps below are otherwise shared.
\* ---------------------------------------------------------------------
UsesFlaskCopy(p) == args[p].op = "get_aws_creds"

\* Variant: the isinstance test is dropped.
InvalidRoleName_noTypeCheck(v) == ~Truthy(v)

\* not role_name or not isinstance(role_name, str)
InvalidRoleName(v) == ~Truthy(v) \/ ~IsStr(v)

\* if not role_name or not isinstance(role_name, str): raise ValueError
Setup_validate(p) ==
  /\ pc[p] = "setup"
  /\ IF InvalidRoleName(loc[p].role_name)
     THEN /\ Raise(p, "ValueError", "role_name is required")
          /\ UNCHANGED <<loc, calls>>
     ELSE /\ Goto(p, "get_caller_identity")
          /\ UNCHANGED <<loc, calls, out>>
  /\ UNCHANGED <<args, org, roles, ous, pageSize, acct, faults>>

\* account_id = sts_client.get_caller_identity()['Account']
Setup_get_caller_identity(p) ==
  /\ pc[p] = "get_caller_identity"
  /\ \/ /\ NoFault
        /\ Call(p, "get_caller_identity", None, CallerAccount)
        /\ SetLoc(p, [account_id |-> CallerAccount])
        /\ Goto(p, "describe_organization")
        /\ UNCHANGED out
     \/ /\ Fault
        /\ Call(p, "get_caller_identity", None, "ExpiredToken")
        /\ Raise(p, "ClientError", "ExpiredToken")
        /\ UNCHANGED loc
  /\ UNCHANGED <<args, org, roles, ous, pageSize, acct>>

\* credential_and_role.py: the ClientError handler raises PermissionError on
\* AccessDeniedException and otherwise falls out of the except block, so the
\* function continues with org_id never assigned.
cred_OtherDescribeError(p, code) ==
  /\ Goto(p, "create_role")
  /\ UNCHANGED out

\* flask_endpoint.py: the same handler ends with a bare `raise`.
flask_OtherDescribeError(p, code) ==
  Raise(p, "ClientError", code)

\* try: org_id = describe_organization()['Organization']['Id'] except ...
Setup_describe_organization(p) ==
  /\ pc[p] = "describe_organization"
  /\ \/ /\ NoFault
        /\ org
        /\ Call(p, "describe_organization", None, OrgId)
        /\ SetLoc(p, [org_id |-> OrgId])
        /\ Goto(p, "create_role")
        /\ UNCHANGED out
     \/ /\ NoFault
        /\ ~org
        /\ Call(p, "describe_organization", None, "AWSOrganizationsNotInUseException")
        /\ Goto(p, "create_organization")
        /\ UNCHANGED <<loc, out>>
     \/ /\ Fault
        /\ Call(p, "describe_organization", None, "AccessDeniedException")
        /\ Raise(p, "PermissionError", "management account credentials required")
        /\ UNCHANGED loc
     \/ /\ Fault
        /\ \E code \in {"ServiceException", "TooManyRequestsException"} :
             /\ Call(p, "describe_organization", None, code)
             /\ IF UsesFlaskCopy(p)
                THEN flask_OtherDescribeError(p, code)
                ELSE cred_OtherDescribeError(p, code)
        /\ UNCHANGED loc
  /\ UNCHANGED <<args, org, roles, ous, pageSize, acct>>

\* except AWSOrganizationsNotInUseException: create_organization(FeatureSet='ALL').
\* An exception raised here is raised inside an except clause and is not seen
\* by the sibling ClientError clause.
Setup_create_organization(p) ==
  /\ pc[p] = "create_organization"
  /\ \/ /\ NoFault
        /\ ~org
        /\ org' = TRUE
        /\ Call(p, "create_organization", "ALL", OrgId)
        /\ SetLoc(p, [org_id |-> OrgId])
        /\ Goto(p, "create_role")
        /\ UNCHANGED out
     \/ /\ NoFault
        /\ org
        /\ Call(p, "create_organization", "ALL", "AlreadyInOrganizationException")
        /\ Raise(p, "ClientError", "AlreadyInOrganizationException")
        /\ UNCHANGED <<loc, org>>
     \/ /\ Fault
        /\ Call(p, "create_organization", "ALL", "AccessDeniedException")
        /\ Raise(p, "ClientError", "AccessDeniedException")
        /\ UNCHANGED <<loc, org>>
  /\ UNCHANGED <<args, roles, ous, pageSize, acct>>

\* try: iam_client.create_role(...) except ClientError: EntityAlreadyExists is ignored
Setup_create_role(p) ==
  /\ pc[p] = "create_role"
  /\ \/ /\ NoFault
        /\ loc[p].role_name \notin roles
        /\ roles' = roles \cup {loc[p].role_name}
        /\ Call(p, "create_role", loc[p].role_name, "ok")
        /\ Goto(p, "attach_role_policy")
        /\ UNCHANGED out
     \/ /\ NoFault
        /\ loc[p].role_name \in roles
        /\ Call(p, "create_role", loc[p].role_name, "EntityAlreadyExists")
        /\ Goto(p, "attach_role_policy")
        /\ UNCHANGED <<out, roles>>
     \/ /\ Fault
        /\ Call(p, "create_role", loc[p].role_name, "LimitExceeded")
        /\ Raise(p, "ClientError", "LimitExceeded")
        /\ UNCHANGED roles
  /\ UNCHANGED <<args, loc, org, ous, pageSize, acct>>

\* try: iam_client.attach_role_policy(...) except ClientError: pass
Setup_attach_role_policy(p) ==
  /\ pc[p] = "attach_role_policy"
  /\ \/ /\ NoFault
        /\ Call(p, "attach_role_policy", loc[p].role_name, "ok")
     \/ /\ Fault
        /\ Call(p, "attach_role_policy", loc[p].role_name, "NoSuchEntity")
  /\ Goto(p, "assume_role")
  /\ UNCHANGED <<args, loc, out, org, roles, ous, pageSize, acct>>

\* resp = sts_client.assume_role(...); creds = resp['Credentials']
Setup_assume_role(p) ==
  /\ pc[p] = "assume_role"
  /\ \/ /\ NoFault
        /\ Call(p, "assume_role", loc[p].role_name, "ok")
        /\ SetLoc(p, [sts_creds |-> Credentials])
        /\ Goto(p, "setup_return")
        /\ UNCHANGED out
     \/ /\ Fault
        /\ Call(p, "assume_role", loc[p].role_name, "AccessDenied")
        /\ Raise(p, "ClientError", "AccessDenied")
        /\ UNCHANGED loc
  /\ UNCHANGED <<args, org, roles, ous, pageSize, acct>>

\* The dict the provisioner returns.
SetupResult(p) ==
  [role_name |-> loc[p].role_name,
   account_id |-> loc[p].account_id,
   organization_id |-> loc[p].org_id,
   access_key_id |-> loc[p].sts_creds.AccessKeyId,
   secret_access_key |-> loc[p].sts_creds.SecretAccessKey,
   session_token |-> loc[p].sts_creds.SessionToken,
   region |-> "us-east-1",
   expires_at |-> Strftime(loc[p].sts_creds.Expiration)]

\* Where the caller of the provisioner continues.
AfterSetup(p) ==
  CASE args[p].op = "get_aws_creds" -> "jsonify"
    [] args[p].op = "create_organizational_unit" -> "co_parent"
    [] args[p].op = "create_member_account" -> "ca_resolve"
    [] OTHER -> "done"

\* Building the result reads org_id; a local that was never assigned raises
\* UnboundLocalError.
Setup_return(p) ==
  /\ pc[p] = "setup_return"
  /\ IF loc[p].org_id = Unbound
     THEN /\ Raise(p, "UnboundLocalError", "org_id")
          /\ UNCHANGED loc
     ELSE /\ SetLoc(p, [creds |-> SetupResult(p)])
          /\ Goto(p, AfterSetup(p))
          /\ out' = [out EXCEPT ![p] =
               IF args[p].op = "setup_org_and_get_creds"
               THEN [kind |-> "return", value |-> SetupResult(p)]
               ELSE @]
  /\ UNCHANGED <<args, calls, org, roles, ous, pageSize, acct, faults>>

\* Direct call of credential_and_role.setup_org_and_get_creds(role_name).
setup_org_and_get_creds(p) ==
  /\ pc[p] = "start"
  /\ args[p].op = "setup_org_and_get_creds"
  /\ SetLoc(p, [role_name |-> args[p].role_name])
  /\ Goto(p, "setup")
  /\ UNCHANGED <<args, out, calls, org, roles, ous, pageSize, acct, faults>>

\* ---------------------------------------------------------------------
\* flask_endpoint.py: GET|POST /get-aws-creds
\* ---------------------------------------------------------------------
\* Variant: the query string is consulted when the JSON body has no role_name.
RequestRoleName_fallback(req) ==
  IF req.is_json /\ Truthy(req.json.role_name) THEN req.json.role_name ELSE req.query

\* role_name as the handler reads it: from the JSON body when the request is
\* JSON, from the query string otherwise.
RequestRoleName(req) ==
  IF req.is_json THEN req.json.role_name ELSE req.query

get_aws_creds(p) ==
  /\ pc[p] = "start"
  /\ args[p].op = "get_aws_creds"
  /\ LET req == args[p].request IN
     IF req.is_json /\ req.json.kind = "malformed"
     THEN /\ Raise(p, "BadRequest", "get_json")
          /\ UNCHANGED loc
     ELSE IF req.is_json /\ req.json.kind = "array"
     THEN /\ Raise(p, "AttributeError", "get")
          /\ UNCHANGED loc
     ELSE IF ~Truthy(RequestRoleName(req))
     THEN /\ out' = [out EXCEPT ![p] =
               [kind |-> "response", status |-> 400,
                body |-> [error |-> "role_name is required"], exc |-> "none"]]
          /\ Goto(p, "done")
          /\ UNCHANGED loc
     ELSE /\ SetLoc(p, [role_name |-> RequestRoleName(req)])
          /\ Goto(p, "setup")
          /\ UNCHANGED out
  /\ UNCHANGED <<args, calls, org, roles, ous, pageSize, acct, faults>>

\* return jsonify(creds)
get_aws_creds_jsonify(p) ==
  /\ pc[p] = "jsonify"
  /\ out' = [out EXCEPT ![p] =
       [kind |-> "response", status |-> 200, body |-> loc[p].creds, exc |-> "none"]]
  /\ Goto(p, "done")
  /\ UNCHANGED <<args, loc, calls, org, roles, ous, pageSize, acct, faults>>

Setup(p) ==
  \/ Setup_validate(p)
  \/ Setup_get_caller_identity(p)
  \/ Setup_describe_organization(p)
  \/ Setup_create_organization(p)
  \/ Setup_create_role(p)
  \/ Setup_attach_role_policy(p)
  \/ Setup_assume_role(p)
  \/ Setup_return(p)

\* ---------------------------------------------------------------------
\* create_ou.py: create_organizational_unit
\* ---------------------------------------------------------------------
\* 1. Determine role
SelectRole(role_name, parent_ou_id, parent_ou_name) ==
  IF Truthy(parent_ou_id) \/ Truthy(parent_ou_name)
  THEN (IF Truthy(role_name) THEN role_name ELSE Format(parent_ou_name) \o S_AdminRole)
  ELSE (IF Truthy(role_name) THEN role_name ELSE S_OrgAdminRole)

\* list_organizational_units_for_parent(ParentId=...)['OrganizationalUnits']:
\* one call, no NextToken followed, so the first page only.
ListOnce(parent) == Page(parent, 1)

\* 'DuplicateOrganizationalUnitNameException' in str(e); str(e) of a
\* ClientError names its error code.
IsDuplicateError(code) == code = "DuplicateOrganizationalUnitNameException"

create_organizational_unit(p) ==
  /\ pc[p] = "start"
  /\ args[p].op = "create_organizational_unit"
  /\ IF ~Truthy(args[p].ou_name)
     THEN /\ Raise(p, "ValueError", "ou_name is required")
          /\ UNCHANGED loc
     ELSE /\ SetLoc(p, [role_name |->
               SelectRole(args[p].role_name, args[p].parent_ou_id, args[p].parent_ou_name)])
          /\ Goto(p, "setup")
          /\ UNCHANGED out
  /\ UNCHANGED <<args, calls, org, roles, ous, pageSize, acct, faults>>

\* 4. Determine parent ID
CO_resolve_parent(p) ==
  /\ pc[p] = "co_parent"
  /\ \/ /\ Truthy(args[p].parent_ou_id)
        /\ SetLoc(p, [parent_id |-> args[p].parent_ou_id])
        /\ Goto(p, "co_create")
        /\ UNCHANGED <<out, calls, faults>>
     \/ /\ ~Truthy(args[p].parent_ou_id)
        /\ NoFault
        /\ Call(p, "list_roots", None, Answer(S_RootId))
        /\ IF Truthy(args[p].parent_ou_name)
           THEN /\ SetLoc(p, [root_id |-> S_RootId])
                /\ Goto(p, "co_list_parent")
           ELSE /\ SetLoc(p, [root_id |-> S_RootId, parent_id |-> S_RootId])
                /\ Goto(p, "co_create")
        /\ UNCHANGED out
     \/ /\ ~Truthy(args[p].parent_ou_id)
        /\ Fault
        /\ Call(p, "list_roots", None, ErrorAnswer("ServiceException"))
        /\ Raise(p, "ClientError", "ServiceException")
        /\ UNCHANGED loc
  /\ UNCHANGED <<args, org, roles, ous, pageSize, acct>>

\* parent_ou = next((ou for ou in ous if ou['Name'] == parent_ou_name), None)
CO_list_parent(p) ==
  /\ pc[p] = "co_list_parent"
  /\ \/ /\ NoFault
        /\ Call(p, "list_organizational_units_for_parent", loc[p].root_id,
                Answer(ListOnce(loc[p].root_id)))
        /\ LET parent_ou == FirstByName(ListOnce(loc[p].root_id), args[p].parent_ou_name) IN
           IF parent_ou = None
           THEN /\ Raise(p, "ValueError", "Parent OU not found under root")
                /\ UNCHANGED loc
           ELSE /\ SetLoc(p, [parent_id |-> parent_ou])
                /\ Goto(p, "co_create")
                /\ UNCHANGED out
     \/ /\ Fault
        /\ Call(p, "list_organizational_units_for_parent", loc[p].root_id, ErrorAnswer("ServiceException"))
        /\ Raise(p, "ClientError", "ServiceException")
        /\ UNCHANGED loc
  /\ UNCHANGED <<args, org, roles, ous, pageSize, acct>>

\* 5. Create OU
CO_create(p) ==
  /\ pc[p] = "co_create"
  /\ LET parent == loc[p].parent_id
         name == args[p].ou_name
         arg == [ParentId |-> parent, Name |-> name] IN
     \/ /\ NoFault
        /\ ParentExists(parent)
        /\ ~NameTaken(parent, name)
        /\ ous' = Append(ous, [Id |-> S_NewId, Name |-> name, ParentId |-> parent])
        /\ Call(p, "create_organizational_unit", arg, Answer(S_NewId))
        /\ SetLoc(p, [ou_id |-> S_NewId])
        /\ Goto(p, "co_return")
        /\ UNCHANGED out
     \/ /\ NoFault
        /\ ParentExists(parent)
        /\ NameTaken(parent, name)
        /\ Call(p, "create_organizational_unit", arg, ErrorAnswer("DuplicateOrganizationalUnitNameException"))
        /\ IF IsDuplicateError("DuplicateOrganizationalUnitNameException")
           THEN Goto(p, "co_dup_list") /\ UNCHANGED out
           ELSE Raise(p, "ClientError", "DuplicateOrganizationalUnitNameException")
        /\ UNCHANGED <<loc, ous>>
     \/ /\ NoFault
        /\ ~ParentExists(parent)
        /\ Call(p, "create_organizational_unit", arg, ErrorAnswer("ParentNotFoundException"))
        /\ IF IsDuplicateError("ParentNotFoundException")
           THEN Goto(p, "co_dup_list") /\ UNCHANGED out
           ELSE Raise(p, "ClientError", "ParentNotFoundException")
        /\ UNCHANGED <<loc, ous>>
     \/ /\ Fault
        /\ Call(p, "create_organizational_unit", arg, ErrorAnswer("ServiceException"))
        /\ IF IsDuplicateError("ServiceException")
           THEN Goto(p, "co_dup_list") /\ UNCHANGED out
           ELSE Raise(p, "ClientError", "ServiceException")
        /\ UNCHANGED <<loc, ous>>
  /\ UNCHANGED <<args, org, roles, pageSize, acct>>

\* Reuse existing: existing = next((ou ... if ou['Name'] == ou_name), None);
\* ou_id = existing['Id'] if existing else None
CO_dup_list(p) ==
  /\ pc[p] = "co_dup_list"
  /\ \/ /\ NoFault
        /\ Call(p, "list_organizational_units_for_parent", loc[p].parent_id,
                Answer(ListOnce(loc[p].parent_id)))
        /\ SetLoc(p, [ou_id |-> FirstByName(ListOnce(loc[p].parent_id), args[p].ou_name)])
        /\ Goto(p, "co_return")
        /\ UNCHANGED out
     \/ /\ Fault
        /\ Call(p, "list_organizational_units_for_parent", loc[p].parent_id, ErrorAnswer("ServiceException"))
        /\ Raise(p, "ClientError", "ServiceException")
        /\ UNCHANGED loc
  /\ UNCHANGED <<args, org, roles, ous, pageSize, acct>>

\* 6. Return full result
CO_return(p) ==
  /\ pc[p] = "co_return"
  /\ out' = [out EXCEPT ![p] =
       [kind |-> "return",
        value |-> [ou_name |-> args[p].ou_name, ou_id |-> loc[p].ou_id,
                   parent_ou_id |-> loc[p].parent_id] @@ loc[p].creds]]
  /\ Goto(p, "done")
  /\ UNCHANGED <<args, loc, calls, org, roles, ous, pageSize, acct, faults>>

CreateOu(p) ==
  \/ create_organizational_unit(p)
  \/ CO_resolve_parent(p)
  \/ CO_list_parent(p)
  \/ CO_create(p)
  \/ CO_dup_list(p)
  \/ CO_return(p)

\* ---------------------------------------------------------------------
\* create_account.py: create_member_account
\* ---------------------------------------------------------------------
MinIdLen == 10

\* Variant: the length test is dropped.
IsOuId_prefixOnly(ou) == StartsWith(ou, S_ouPrefix)

\* Variant: the length test admits ten characters.
IsOuId_offByOne(ou) == StartsWith(ou, S_ouPrefix) /\ Len(ou) >= MinIdLen

\* ou.startswith("ou-") and len(ou) > 10
IsOuId(ou) == StartsWith(ou, S_ouPrefix) /\ Len(ou) > MinIdLen

\* Variant: the provider's reason is dropped.
ReasonOf_alwaysUnknown(status) == S_Unknown

\* status["CreateAccountStatus"].get("FailureReason", "Unknown")
ReasonOf(status) ==
  IF status.FailureReason = None THEN S_Unknown ELSE status.FailureReason

\* f"Account creation failed: {reason}"
FailureMessage(reason) == S_FailedPrefix \o reason

\* Variant: the loop gives up on a status that is not SUCCEEDED.
PollDecision_giveUp(state) == IF state = "SUCCEEDED" THEN "break" ELSE "raise"

\* Variant: the loop does not leave on SUCCEEDED.
PollDecision_noBreak(state) == IF state = "FAILED" THEN "raise" ELSE "sleep"

\* The branch the poll loop takes on a reported state: break on SUCCEEDED,
\* raise on FAILED, otherwise sleep and poll again.
PollDecision(state) ==
  CASE state = "SUCCEEDED" -> "break"
    [] state = "FAILED" -> "raise"
    [] OTHER -> "sleep"

\* What describe_create_account_status may answer next.
NextStatus ==
  IF acct.State # "IN_PROGRESS" THEN {acct}
  ELSE (IF acct.polls < MaxPolls THEN {[acct EXCEPT !.polls = @ + 1]} ELSE {})
       \cup {[acct EXCEPT !.State = "SUCCEEDED", !.AccountId = a, !.ParentId = S_RootId] :
               a \in AccountIds}
       \cup {[acct EXCEPT !.State = "FAILED", !.FailureReason = r] : r \in FailureReasons}

\* A describe_create_account_status call answered with an error instead of a status.
StatusError(code) == [State |-> code, AccountId |-> Unbound, FailureReason |-> None]

\* Error texts create_account may fail with.
S_FinalizingWithId == S_Finalizing \o <<" ">> \o S_ReqId
S_FinalizingNoId == S_Finalizing \o <<" ", "o", "r", "g", ".", " ">>
S_Constraint == <<"C", "o", "n", "s", "t", "r", "a", "i", "n", "t">>
CreateAccountErrors == {S_FinalizingWithId, S_FinalizingNoId, S_Constraint}

create_member_account(p) ==
  /\ pc[p] = "start"
  /\ args[p].op = "create_member_account"
  /\ IF ~Truthy(args[p].account_name) \/ ~Truthy(args[p].account_email) \/ ~Truthy(args[p].ou)
     THEN /\ Raise(p, "ValueError", "account_name, account_email, and ou are required")
          /\ UNCHANGED loc
     ELSE /\ SetLoc(p, [role_name |-> args[p].role_name])
          /\ Goto(p, "setup")
          /\ UNCHANGED out
  /\ UNCHANGED <<args, calls, org, roles, ous, pageSize, acct, faults>>

\* 2. Resolve OU: a literal id, or resolve_ou_id(org_client, ou_name=ou)
CA_resolve(p) ==
  /\ pc[p] = "ca_resolve"
  /\ IF IsOuId(args[p].ou)
     THEN /\ SetLoc(p, [target_ou_id |-> args[p].ou])
          /\ Goto(p, "ca_create")
     ELSE /\ SetLoc(p, [lookups |-> loc[p].lookups + 1])
          /\ Goto(p, "ca_list_roots")
  /\ UNCHANGED <<args, out, calls, org, roles, ous, pageSize, acct, faults>>

\* resolve_ou_id: root_id = org_client.list_roots()["Roots"][0]["Id"]; any
\* exception in the resolve block is re-raised as ValueError.
CA_list_roots(p) ==
  /\ pc[p] = "ca_list_roots"
  /\ \/ /\ NoFault
        /\ Call(p, "list_roots", None, Answer(S_RootId))
        /\ SetLoc(p, [root_id |-> S_RootId, page |-> 1])
        /\ Goto(p, "ca_page")
        /\ UNCHANGED out
     \/ /\ Fault
        /\ Call(p, "list_roots", None, ErrorAnswer("ServiceException"))
        /\ Raise(p, "ValueError", "Cannot resolve OU")
        /\ UNCHANGED loc
  /\ UNCHANGED <<args, org, roles, ous, pageSize, acct>>

\* resolve_ou_id: for page in paginator.paginate(ParentId=root_id): ...
CA_page(p) ==
  /\ pc[p] = "ca_page"
  /\ \/ /\ NoFault
        /\ Call(p, "list_organizational_units_for_parent", loc[p].root_id,
                Answer(Page(loc[p].root_id, loc[p].page)))
        /\ LET found == FirstByName(Page(loc[p].root_id, loc[p].page), args[p].ou) IN
           IF found # None
           THEN /\ SetLoc(p, [target_ou_id |-> found])
                /\ Goto(p, "ca_create")
                /\ UNCHANGED out
           ELSE IF loc[p].page < NumPages(loc[p].root_id)
           THEN /\ SetLoc(p, [page |-> loc[p].page + 1])
                /\ UNCHANGED <<pc, out>>
           ELSE /\ Raise(p, "ValueError", "Cannot resolve OU")
                /\ UNCHANGED loc
     \/ /\ Fault
        /\ Call(p, "list_organizational_units_for_parent", loc[p].root_id, ErrorAnswer("ServiceException"))
        /\ Raise(p, "ValueError", "Cannot resolve OU")
        /\ UNCHANGED loc
  /\ UNCHANGED <<args, org, roles, ous, pageSize, acct>>

\* 3. Start account creation
CA_create_account(p) ==
  /\ pc[p] = "ca_create"
  /\ \/ /\ NoFault
        /\ acct' = [NoAccount EXCEPT !.State = "IN_PROGRESS"]
        /\ Call(p, "create_account", args[p].account_email, S_ReqId)
        /\ SetLoc(p, [create_id |-> S_ReqId])
        /\ Goto(p, "ca_poll")
        /\ UNCHANGED out
     \/ /\ Fault
        /\ \E text \in CreateAccountErrors :
             /\ Call(p, "create_account", args[p].account_email, text)
             /\ IF Contains(text, S_Finalizing)
                THEN /\ SetLoc(p, [create_id |-> LastToken(text)])
                     /\ Goto(p, "ca_poll")
                     /\ acct' = IF LastToken(text) = S_ReqId
                                THEN [NoAccount EXCEPT !.State = "IN_PROGRESS"]
                                ELSE acct
                     /\ UNCHANGED out
                ELSE /\ Raise(p, "ClientError", text)
                     /\ UNCHANGED <<loc, acct>>
  /\ UNCHANGED <<args, org, roles, ous, pageSize>>

\* 4. Wait for completion: one iteration of the while True loop
CA_poll(p) ==
  /\ pc[p] = "ca_poll"
  /\ \/ /\ NoFault
        /\ loc[p].create_id = S_ReqId
        /\ \E status \in NextStatus :
             /\ acct' = status
             /\ Call(p, "describe_create_account_status", loc[p].create_id,
                     [State |-> status.State, AccountId |-> status.AccountId,
                      FailureReason |-> status.FailureReason])
             /\ IF PollDecision(status.State) = "break"
                THEN /\ SetLoc(p, [new_account_id |-> status.AccountId])
                     /\ Goto(p, "ca_move_roots")
                     /\ UNCHANGED out
                ELSE IF PollDecision(status.State) = "raise"
                THEN /\ Raise(p, "RuntimeError", FailureMessage(ReasonOf(status)))
                     /\ UNCHANGED loc
                ELSE UNCHANGED <<pc, loc, out>>
     \/ /\ NoFault
        /\ loc[p].create_id # S_ReqId
        /\ Call(p, "describe_create_account_status", loc[p].create_id,
                StatusError("CreateAccountStatusNotFoundException"))
        /\ Raise(p, "ClientError", "CreateAccountStatusNotFoundException")
        /\ UNCHANGED <<loc, acct>>
     \/ /\ Fault
        /\ Call(p, "describe_create_account_status", loc[p].create_id,
                StatusError("ServiceException"))
        /\ Raise(p, "ClientError", "ServiceException")
        /\ UNCHANGED <<loc, acct>>
  /\ UNCHANGED <<args, org, roles, ous, pageSize>>

\* 5. Move to OU: root_id = org_client.list_roots()["Roots"][0]["Id"]
CA_move_roots(p) ==
  /\ pc[p] = "ca_move_roots"
  /\ \/ /\ NoFault
        /\ Call(p, "list_roots", None, Answer(S_RootId))
        /\ SetLoc(p, [root_id |-> S_RootId])
        /\ Goto(p, "ca_move")
        /\ UNCHANGED out
     \/ /\ Fault
        /\ Call(p, "list_roots", None, ErrorAnswer("ServiceException"))
        /\ Raise(p, "ClientError", "ServiceException")
        /\ UNCHANGED loc
  /\ UNCHANGED <<args, org, roles, ous, pageSize, acct>>

\* Variant: source and destination are swapped.
MoveArgs_swapped(p) ==
  [AccountId |-> loc[p].new_account_id, SourceParentId |-> loc[p].target_ou_id,
   DestinationParentId |-> loc[p].root_id]

\* move_account(AccountId=account_id, SourceParentId=root_id,
\*              DestinationParentId=target_ou_id)
MoveArgs(p) ==
  [AccountId |-> loc[p].new_account_id, SourceParentId |-> loc[p].root_id,
   DestinationParentId |-> loc[p].target_ou_id]

\* org_client.move_account(...)
CA_move_account(p) ==
  /\ pc[p] = "ca_move"
  /\ LET arg == MoveArgs(p) IN
     \/ /\ NoFault
        /\ ParentExists(arg.DestinationParentId)
        /\ acct' = [acct EXCEPT !.ParentId = arg.DestinationParentId]
        /\ Call(p, "move_account", arg, "ok")
        /\ Goto(p, "ca_return")
        /\ UNCHANGED out
     \/ /\ NoFault
        /\ ~ParentExists(arg.DestinationParentId)
        /\ Call(p, "move_account", arg, "DestinationParentNotFoundException")
        /\ Raise(p, "ClientError", "DestinationParentNotFoundException")
        /\ UNCHANGED acct
     \/ /\ Fault
        /\ Call(p, "move_account", arg, "ServiceException")
        /\ Raise(p, "ClientError", "ServiceException")
        /\ UNCHANGED acct
  /\ UNCHANGED <<args, loc, org, roles, ous, pageSize>>

\* 6. Return result
CA_return(p) ==
  /\ pc[p] = "ca_return"
  /\ out' = [out EXCEPT ![p] =
       [kind |-> "return",
        value |-> [account_name |-> args[p].account_name,
                   account_id |-> loc[p].new_account_id,
                   account_email |-> args[p].account_email,
                   ou_id |-> loc[p].target_ou_id,
                   create_request_id |-> loc[p].create_id] @@ loc[p].creds]]
  /\ Goto(p, "done")
  /\ UNCHANGED <<args, loc, calls, org, roles, ous, pageSize, acct, faults>>

CreateAccount(p) ==
  \/ create_member_account(p)
  \/ CA_resolve(p)
  \/ CA_list_roots(p)
  \/ CA_page(p)
  \/ CA_create_account(p)
  \/ CA_poll(p)
  \/ CA_move_roots(p)
  \/ CA_move_account(p)
  \/ CA_return(p)

\* ---------------------------------------------------------------------
\* Inputs and initial states
\* ---------------------------------------------------------------------
NoRequest == [is_json |-> FALSE, json |-> [kind |-> "none", role_name |-> None], query |-> None]

IdleArgs ==
  [op |-> "idle", request |-> NoRequest, role_name |-> None, ou_name |-> None,
   parent_ou_id |-> None, parent_ou_name |-> None, account_name |-> None,
   account_email |-> None, ou |-> None]

LocInit ==
  [role_name |-> None, account_id |-> Unbound, org_id |-> Unbound, sts_creds |-> Unbound,
   creds |-> Unbound, root_id |-> None, parent_id |-> None, ou_id |-> None,
   target_ou_id |-> None, create_id |-> None, new_account_id |-> Unbound,
   page |-> 0, lookups |-> 0]

NoOutcome == [kind |-> "none"]

\* JSON bodies: a body that does not parse, a body that is not an object, and
\* objects whose role_name is missing or null, empty, a string, or a number.
JsonBodies ==
  {[kind |-> "malformed", role_name |-> None], [kind |-> "array", role_name |-> None]}
    \cup {[kind |-> "object", role_name |-> v] : v \in {None, EmptyStr, S_MobileOrgAdmin, Int123}}

QueryValues == {None, EmptyStr, S_MobileOrgAdmin}

Requests ==
  {[is_json |-> TRUE, json |-> j, query |-> q] : j \in JsonBodies, q \in QueryValues}
    \cup {[is_json |-> FALSE, json |-> NoRequest.json, query |-> q] : q \in QueryValues}

EndpointArgs == {[IdleArgs EXCEPT !.op = "get_aws_creds", !.request = r] : r \in Requests}

SetupArgs ==
  {[IdleArgs EXCEPT !.op = "setup_org_and_get_creds", !.role_name = r] :
     r \in {None, EmptyStr, Int123, S_MobileOrgAdmin}}

CreateOuArgs ==
  {[IdleArgs EXCEPT !.op = "create_organizational_unit", !.ou_name = n,
      !.parent_ou_id = i, !.parent_ou_name = pn, !.role_name = r] :
     n \in {EmptyStr, S_Development, S_Team},
     i \in {None, S_DevId, S_GoneId},
     pn \in {None, S_Development, S_Team},
     r \in {None, S_MobileOrgAdmin}}

CreateAccountArgs ==
  {[IdleArgs EXCEPT !.op = "create_member_account", !.account_name = n,
      !.account_email = e, !.ou = o, !.role_name = S_OrgAdminRole] :
     n \in {EmptyStr, S_x}, e \in {EmptyStr, S_x},
     o \in {EmptyStr, S_Development, S_Team, S_ouShort, S_DevId, S_GoneId}}

OuDev == [Id |-> S_DevId, Name |-> S_Development, ParentId |-> S_RootId]
OuProd == [Id |-> S_ProdId, Name |-> S_Prod, ParentId |-> S_RootId]
OuShort == [Id |-> S_ShortId, Name |-> S_ouShort, ParentId |-> S_RootId]
OuTeam == [Id |-> S_TeamId, Name |-> S_Team, ParentId |-> S_DevId]
OuDevProd == [Id |-> S_DevProdId, Name |-> S_Prod, ParentId |-> S_DevId]

\* OU trees the provider may hold, in the order it lists them.
Directories ==
  {<<>>, <<OuDev>>, <<OuProd, OuDev>>, <<OuDev, OuProd, OuTeam>>,
   <<OuProd, OuShort, OuDev, OuDevProd, OuTeam>>}

KnownRoles ==
  {S_MobileOrgAdmin, S_OrgAdminRole, S_Development \o S_AdminRole, S_None \o S_AdminRole}

InitProvider ==
  /\ org \in BOOLEAN
  /\ roles \in {{}, KnownRoles}
  /\ acct = NoAccount

InitCalls(a) ==
  /\ args = [p \in Procs |-> IF p = 1 THEN a ELSE IdleArgs]
  /\ pc = [p \in Procs |-> IF p = 1 THEN "start" ELSE "idle"]
  /\ loc = [p \in Procs |-> LocInit]
  /\ out = [p \in Procs |-> NoOutcome]
  /\ calls = [p \in Procs |-> <<>>]

Init ==
  /\ InitProvider
  /\ faults = MaxFaults
  /\ \/ /\ \E a \in EndpointArgs \cup SetupArgs : InitCalls(a)
        /\ ous = <<>>
        /\ pageSize = 1
     \/ /\ \E a \in CreateOuArgs : InitCalls(a)
        /\ ous \in Directories
        /\ pageSize \in 1..MaxPageSize
     \/ /\ \E a \in CreateAccountArgs : InitCalls(a)
        /\ ous \in Directories
        /\ pageSize \in 1..MaxPageSize

Next ==
  \E p \in {1} :
    \/ get_aws_creds(p)
    \/ get_aws_creds_jsonify(p)
    \/ setup_org_and_get_creds(p)
    \/ Setup(p)
    \/ CreateOu(p)
    \/ CreateAccount(p)

Spec == Init /\ [][Next]_vars

\* Two /get-aws-creds requests for the same role name, served concurrently
\* (one worker each), against a provider that injects no error of its own.
RaceRequests ==
  {[is_json |-> TRUE, json |-> [kind |-> "object", role_name |-> S_MobileOrgAdmin],
    query |-> None],
   [is_json |-> FALSE, json |-> NoRequest.json, query |-> S_MobileOrgAdmin]}

InitRace ==
  /\ InitProvider
  /\ faults = 0
  /\ ous = <<>>
  /\ pageSize = 1
  /\ \E r1 \in RaceRequests, r2 \in RaceRequests :
       args = [p \in Procs |->
                 [IdleArgs EXCEPT !.op = "get_aws_creds", !.request = IF p = 1 THEN r1 ELSE r2]]
  /\ pc = [p \in Procs |-> "start"]
  /\ loc = [p \in Procs |-> LocInit]
  /\ out = [p \in Procs |-> NoOutcome]
  /\ calls = [p \in Procs |-> <<>>]

NextRace ==
  \E p \in Procs :
    \/ get_aws_creds(p)
    \/ get_aws_creds_jsonify(p)
    \/ Setup(p)

SpecRace == InitRace /\ [][NextRace]_vars

\* One create_member_account call that keeps running: the calling thread is
\* never suspended for good (time.sleep(6) returns), so its next step is
\* eventually taken. The provider answers IN_PROGRESS at most MaxPolls times
\* before it reports a terminal state.
InitPoll ==
  /\ InitProvider
  /\ faults = MaxFaults
  /\ \E a \in CreateAccountArgs : InitCalls(a)
  /\ ous \in Directories
  /\ pageSize \in 1..MaxPageSize

NextPoll ==
  \E p \in {1} :
    \/ Setup(p)
    \/ CreateAccount(p)

SpecPoll == InitPoll /\ [][NextPoll]_vars /\ WF_vars(NextPoll)


\* ---------------------------------------------------------------------
\* Properties
\* ---------------------------------------------------------------------
\* Indices of the calls of `api` issued by call p.
Idx(p, api) == {i \in 1..Len(calls[p]) : calls[p][i].api = api}

IsOp(name) == args[1].op = name

\* The provisioner raised PermissionError: describe_organization was answered
\* with AccessDeniedException and nothing was called after it.
PermissionRaised(p) ==
  /\ calls[p] # <<>>
  /\ calls[p][Len(calls[p])].api = "describe_organization"
  /\ calls[p][Len(calls[p])].resp = "AccessDeniedException"

CredentialFields == {"access_key_id", "secret_access_key", "session_token", "expires_at"}

C2_Claim ==
  (/\ IsOp("create_organizational_unit")
   /\ pc[1] = "done"
   /\ faults = MaxFaults
   /\ \E i \in Idx(1, "create_organizational_unit") :
        calls[1][i].resp = ErrorAnswer("DuplicateOrganizationalUnitNameException")) =>
    /\ out[1].kind = "return"
    /\ out[1].value.ou_id # None
    /\ \E k \in 1..Len(ous) :
         /\ ous[k].ParentId = loc[1].parent_id
         /\ ous[k].Name = args[1].ou_name
         /\ ous[k].Id = out[1].value.ou_id

\* Indices of the describe_create_account_status calls answered with `state`.
Described(state) ==
  {i \in Idx(1, "describe_create_account_status") : calls[1][i].resp.State = state}

\* C3: once describe_create_account_status reports SUCCEEDED no further
\* describe_create_account_status call is made, and the account id in the
\* result is the AccountId of that one SUCCEEDED status.
C3_PollStopsOnSucceeded ==
  IsOp("create_member_account") =>
    /\ \A i \in Described("SUCCEEDED") :
         /\ \A j \in Idx(1, "describe_create_account_status") : j <= i
         /\ loc[1].new_account_id = calls[1][i].resp.AccountId
    /\ Cardinality(Described("SUCCEEDED")) <= 1
    /\ out[1].kind = "return" =>
         /\ Cardinality(Described("SUCCEEDED")) = 1
         /\ \A i \in Described("SUCCEEDED") :
              out[1].value.account_id = calls[1][i].resp.AccountId

\* The call returned after a poll that was still IN_PROGRESS and one that SUCCEEDED.
C3_Witness ==
  /\ IsOp("create_member_account")
  /\ out[1].kind = "return"
  /\ Described("IN_PROGRESS") # {}
  /\ out[1].value.account_id = "777788889999"

\* C4: when describe_create_account_status reports FAILED the call raises an
\* error whose text carries the provider's failure reason, nothing is called
\* after that status, and no move_account is issued.
C4_FailedRaises ==
  IsOp("create_member_account") =>
    \A i \in Described("FAILED") :
      /\ i = Len(calls[1])
      /\ Idx(1, "move_account") = {}
      /\ pc[1] = "done"
      /\ out[1].kind = "raise"
      /\ out[1].type = "RuntimeError"
      /\ calls[1][i].resp.FailureReason # None =>
           /\ Contains(out[1].msg, calls[1][i].resp.FailureReason)
           /\ SubSeq(out[1].msg, Len(out[1].msg) - Len(calls[1][i].resp.FailureReason) + 1,
                     Len(out[1].msg)) = calls[1][i].resp.FailureReason

\* The call raised with the reason the provider gave.
C4_Witness ==
  /\ IsOp("create_member_account")
  /\ Described("FAILED") # {}
  /\ out[1].kind = "raise"
  /\ out[1].type = "RuntimeError"
  /\ out[1].msg = S_FailedPrefix \o S_EmailExists

\* The identifier heuristic, as the claim words it.
MatchesIdHeuristic(ou) ==
  Len(ou) > 10 /\ ou[1] = "o" /\ ou[2] = "u" /\ ou[3] = "-"

C6_Claim ==
  (~UsesFlaskCopy(1)) =>
    \A i \in Idx(1, "describe_organization") :
      calls[1][i].resp \in {"ServiceException", "TooManyRequestsException"} =>
        /\ i = Len(calls[1])
        /\ pc[1] = "done" =>
             /\ out[1].kind = "raise"
             /\ out[1].type = "ClientError"
             /\ out[1].msg = calls[1][i].resp

\* C7: create_member_account with an empty account_name, account_email or ou,
\* create_organizational_unit with an empty ou_name, and
\* setup_org_and_get_creds with an empty or non-string role_name raise a
\* validation error and issue no provider call.
C7_ValidationBeforeCalls ==
  LET a == args[1]
      invalid ==
        \/ /\ a.op = "create_member_account"
           /\ (a.account_name = EmptyStr \/ a.account_email = EmptyStr \/ a.ou = EmptyStr)
        \/ (a.op = "create_organizational_unit" /\ a.ou_name = EmptyStr)
        \/ (a.op = "setup_org_and_get_creds" /\ a.role_name \in {None, EmptyStr, Int123})
  IN invalid =>
       /\ calls[1] = <<>>
       /\ pc[1] \in {"start", "setup", "done"}
       /\ pc[1] = "done" => (out[1].kind = "raise" /\ out[1].type = "ValueError")

\* setup_org_and_get_creds raised on a role_name that is not a string.
C7_Witness ==
  /\ IsOp("setup_org_and_get_creds")
  /\ args[1].role_name = Int123
  /\ pc[1] = "done"
  /\ out[1].kind = "raise"
  /\ out[1].type = "ValueError"
  /\ calls[1] = <<>>

\* C8 (as stated): an explicit role_name is the role passed to the provisioner;
\* with none, a parent given by id or by name makes it the parent OU's name
\* followed by "AdminRole", and no parent makes it "OrgAdminRole".
C8_Claim ==
  (IsOp("create_organizational_unit") /\ loc[1].role_name # None) =>
    LET a == args[1]
        given == a.parent_ou_id # None \/ a.parent_ou_name # None
        parentNames ==
          IF a.parent_ou_name # None THEN {a.parent_ou_name}
          ELSE {ous[k].Name : k \in {j \in 1..Len(ous) : ous[j].Id = a.parent_ou_id}}
    IN /\ a.role_name # None => loc[1].role_name = a.role_name
       /\ (a.role_name = None /\ given /\ parentNames # {}) =>
            \E n \in parentNames : loc[1].role_name = n \o S_AdminRole
       /\ (a.role_name = None /\ ~given) => loc[1].role_name = S_OrgAdminRole
       /\ \A i \in Idx(1, "create_role") : calls[1][i].arg = loc[1].role_name

\* Successful calls of `api` over both requests.
Created(api) ==
  UNION {{<<p, i>> : i \in {j \in Idx(p, api) : calls[p][j].resp \in {"ok", OrgId}}} :
           p \in Procs}

\* C9 (as stated): two concurrent /get-aws-creds requests for the same role
\* name both succeed in every interleaving, and at most one Organization and
\* one role are created.
C9_Claim ==
  /\ \A p \in Procs : pc[p] = "done" => out[p].status = 200
  /\ Cardinality(Created("create_organization")) <= 1
  /\ Cardinality(Created("create_role")) <= 1

\* C10: move_account is issued at most once, only after SUCCEEDED was observed,
\* with the provider's AccountId, the root as source and the resolved OU as
\* destination; a returned result follows exactly one successful move.
C10_MoveAfterSucceeded ==
  IsOp("create_member_account") =>
    LET moves == Idx(1, "move_account")
        ou == args[1].ou
    IN /\ Cardinality(moves) <= 1
       /\ \A j \in moves :
            /\ \E i \in Described("SUCCEEDED") :
                 i < j /\ calls[1][j].arg.AccountId = calls[1][i].resp.AccountId
            /\ calls[1][j].arg.SourceParentId = S_RootId
            /\ IF MatchesIdHeuristic(ou)
               THEN calls[1][j].arg.DestinationParentId = ou
               ELSE \E k \in 1..Len(ous) :
                      /\ ous[k].ParentId = S_RootId
                      /\ ous[k].Name = ou
                      /\ ous[k].Id = calls[1][j].arg.DestinationParentId
       /\ out[1].kind = "return" =>
            /\ moves # {}
            /\ \A j \in moves :
                 /\ j = Len(calls[1])
                 /\ calls[1][j].resp = "ok"
                 /\ out[1].value.ou_id = calls[1][j].arg.DestinationParentId
                 /\ acct.ParentId = calls[1][j].arg.DestinationParentId

\* The account was moved from the root into the OU found by name.
C10_Witness ==
  /\ IsOp("create_member_account")
  /\ out[1].kind = "return"
  /\ args[1].ou = S_Development
  /\ acct.ParentId = S_DevId
  /\ Idx(1, "move_account") # {}

\* The last provider call of the call, if any, is a poll answered with `state`.
LastPollAnswered(state) ==
  /\ calls[1] # <<>>
  /\ calls[1][Len(calls[1])].api = "describe_create_account_status"
  /\ calls[1][Len(calls[1])].resp.State = state

\* C11: the poll loop has no retry limit or timeout. A poll answered with a
\* non-terminal state, however many came before it, leaves the call in the
\* loop with nothing raised or returned; the loop is left only by a step that
\* polls and is answered SUCCEEDED or FAILED (or by the describe call itself
\* raising); and when the provider reports a terminal state after finitely
\* many polls, the call terminates.
C11_PollsUntilTerminal ==
  /\ [](LastPollAnswered("IN_PROGRESS") =>
          (pc[1] = "ca_poll" /\ out[1].kind = "none" /\ ENABLED CA_poll(1)))
  /\ [][(pc[1] = "ca_poll" /\ pc'[1] # "ca_poll") =>
          /\ Len(calls'[1]) = Len(calls[1]) + 1
          /\ calls'[1][Len(calls'[1])].api = "describe_create_account_status"
          /\ calls'[1][Len(calls'[1])].resp.State # "IN_PROGRESS"
          /\ (calls'[1][Len(calls'[1])].resp.State \notin {"SUCCEEDED", "FAILED"} =>
                (out'[1].kind = "raise" /\ out'[1].type = "ClientError"))]_vars
  /\ <>(pc[1] = "done")

\* The call was still in the loop after MaxPolls polls answered IN_PROGRESS.
C11_Witness ==
  /\ IsOp("create_member_account")
  /\ pc[1] = "ca_poll"
  /\ LastPollAnswered("IN_PROGRESS")
  /\ Cardinality(Described("IN_PROGRESS")) = MaxPolls

\* The ou argument is no literal id and no OU directly under the root bears it
\* as its name.
Unresolvable(ou) ==
  /\ ~MatchesIdHeuristic(ou)
  /\ ~\E k \in 1..Len(ous) : ous[k].ParentId = S_RootId /\ ous[k].Name = ou

\* C12: when ou does not match the id heuristic and no OU of that name exists
\* under the root, create_member_account issues no create_account,
\* describe_create_account_status or move_account call, never returns a
\* result, and once the lookup has run the call ends in a validation error.
C12_NoAccountWithoutOu ==
  (IsOp("create_member_account") /\ Unresolvable(args[1].ou)) =>
    /\ Idx(1, "create_account") = {}
    /\ Idx(1, "describe_create_account_status") = {}
    /\ Idx(1, "move_account") = {}
    /\ acct = NoAccount
    /\ out[1].kind # "return"
    /\ (pc[1] = "done" /\ loc[1].lookups = 1) =>
         (out[1].kind = "raise" /\ out[1].type = "ValueError")

\* A name that exists only under a nested OU was looked up, through every page
\* of the root's listing, and the call raised.
C12_Witness ==
  /\ IsOp("create_member_account")
  /\ args[1].ou = S_Team
  /\ \E k \in 1..Len(ous) : ous[k].Name = S_Team
  /\ pc[1] = "done"
  /\ out[1].kind = "raise"
  /\ out[1].type = "ValueError"
  /\ Cardinality(Idx(1, "list_organizational_units_for_parent")) >= 2
  /\ faults = MaxFaults

====
